---- MODULE Spec2Model ----
(***************************************************************************)
(* Feature and graph assembly of examples/plot_snakes.py: one_hot_colors,  *)
(* neighborhood_feature and the per-sample loop of prepare_data.           *)
(*                                                                         *)
(* Arrays are functions over 0-based index sets, as in numpy.  An H x W    *)
(* grid is a function over (0..H-1) \X (0..W-1); a matrix is a function    *)
(* from row index to a function from column index.  Python lists (the      *)
(* batch X and the two result lists) are sequences.                        *)
(***************************************************************************)
EXTENDS Integers, Sequences, FiniteSets, TLC

\* ------------------------------------------------------------------ bounds
\* most pixels (H * W) of the grid of a single-sample dataset
MaxCells == 9
\* most non-background pixels in a dataset
MaxSnake == 1
\* largest number of grids in a batch
MaxBatch == 2
\* most pixels, over all its grids, of a batch of several grids
BatchCells == 4

VARIABLES
  X_raw,            \* main: snakes['X_train'], the raw H x W x 3 grids
  X,                \* main: the one-hot grids handed to prepare_data
  pc,               \* position in main / prepare_data
  idx,              \* prepare_data: position of the loop `for x in X`
  right, down,      \* prepare_data locals (line 70)
  edges,            \* prepare_data local (line 71)
  features,         \* prepare_data local (line 73)
  edge_features_directions,  \* prepare_data local (line 76)
  edge_features,    \* prepare_data local (lines 78-82)
  X_directions,     \* prepare_data result list
  X_edge_features   \* prepare_data result list

vars == <<X_raw, X, pc, idx, right, down, edges, features,
          edge_features_directions, edge_features,
          X_directions, X_edge_features>>

\* --------------------------------------------------------- array helpers
\* a local that has not been assigned yet
Unbound == << >>

\* len(a) of a 0-based array
Size(a) == Cardinality(DOMAIN a)

\* x.shape[0] and x.shape[1] of a grid
Shape0(x) == Cardinality({p[1] : p \in DOMAIN x})
Shape1(x) == Cardinality({p[2] : p \in DOMAIN x})

\* np.vstack([a, b]) of two 0-based arrays of rows
vstack(a, b) ==
  [i \in 0..(Size(a) + Size(b) - 1) |->
      IF i < Size(a) THEN a[i] ELSE b[i - Size(a)]]

RECURSIVE SumTo(_, _)
\* sum of f[0] .. f[n]
SumTo(f, n) == IF n < 0 THEN 0 ELSE f[n] + SumTo(f, n - 1)

\* 2 ** k
Pow2(k) == IF k = 0 THEN 1 ELSE IF k = 1 THEN 2 ELSE 4

\* ------------------------------------------------------- one_hot_colors
\* the classes handed to label_binarize
classes_bad == <<1, 2, 3, 4, 5>>
classes == <<1, 2, 3, 4, 6>>

\* sklearn's label_binarize: row n has a 1 in the column of the class equal
\* to y[n], and is all zero when y[n] is none of the classes
label_binarize(y, cls) ==
  [n \in DOMAIN y |-> [k \in 0..(Len(cls) - 1) |->
      IF y[n] = cls[k + 1] THEN 1 ELSE 0]]

\* np.dot(x.reshape(-1, 3), 2 ** np.arange(3)) after x = x / 255
flat_of(x) ==
  LET W  == Shape1(x)
      x1 == [p \in DOMAIN x |-> [ch \in 0..2 |-> x[p][ch] \div 255]]
  IN  [n \in 0..(Shape0(x) * W - 1) |->
         SumTo([ch \in 0..2 |-> x1[<<n \div W, n % W>>][ch] * Pow2(ch)], 2)]

one_hot_colors(x) ==
  LET W       == Shape1(x)
      one_hot == label_binarize(flat_of(x), classes)
  IN  [p \in DOMAIN x |-> one_hot[p[1] * W + p[2]]]

\* ------------------------------------------------- neighborhood_feature
\* "position 3 is background"
background == 3

\* the 4-d array `features` before the final reshape, at [r, c, cat, slot]
features4_nopad(x, r, c, cat, slot) ==
  LET H == Shape0(x)
      W == Shape1(x)
  IN  CASE slot = 0 -> IF c >= 1     THEN x[<<r, c - 1>>][cat] ELSE 0
        [] slot = 1 -> IF r >= 1     THEN x[<<r - 1, c>>][cat] ELSE 0
        [] slot = 2 -> IF r <= H - 2 THEN x[<<r + 1, c>>][cat] ELSE 0
        [] slot = 3 -> IF c <= W - 2 THEN x[<<r, c + 1>>][cat] ELSE 0
        [] OTHER    -> x[<<r, c>>][cat]
features4_swap(x, r, c, cat, slot) ==
  LET H    == Shape0(x)
      W    == Shape1(x)
      base == IF cat = background THEN 1 ELSE 0
  IN  CASE slot = 0 -> IF c >= 1     THEN x[<<r, c - 1>>][cat] ELSE base
        [] slot = 1 -> IF r >= 1     THEN x[<<r - 1, c>>][cat] ELSE base
        [] slot = 2 -> IF r <= H - 2 THEN x[<<r + 1, c>>][cat] ELSE base
        [] slot = 3 -> IF c >= 1     THEN x[<<r, c - 1>>][cat] ELSE base
        [] OTHER    -> x[<<r, c>>][cat]
features4_self0(x, r, c, cat, slot) ==
  LET H    == Shape0(x)
      W    == Shape1(x)
      base == IF cat = background THEN 1 ELSE 0
  IN  CASE slot = 0 -> x[<<r, c>>][cat]
        [] slot = 1 -> IF r >= 1     THEN x[<<r - 1, c>>][cat] ELSE base
        [] slot = 2 -> IF r <= H - 2 THEN x[<<r + 1, c>>][cat] ELSE base
        [] slot = 3 -> IF c <= W - 2 THEN x[<<r, c + 1>>][cat] ELSE base
        [] OTHER    -> IF c >= 1     THEN x[<<r, c - 1>>][cat] ELSE base
features4(x, r, c, cat, slot) ==
  LET H    == Shape0(x)
      W    == Shape1(x)
      \* np.zeros, then features[:, :, 3, :] = 1
      base == IF cat = background THEN 1 ELSE 0
  IN  CASE slot = 0 -> IF c >= 1     THEN x[<<r, c - 1>>][cat] ELSE base
        [] slot = 1 -> IF r >= 1     THEN x[<<r - 1, c>>][cat] ELSE base
        [] slot = 2 -> IF r <= H - 2 THEN x[<<r + 1, c>>][cat] ELSE base
        [] slot = 3 -> IF c <= W - 2 THEN x[<<r, c + 1>>][cat] ELSE base
        [] OTHER    -> x[<<r, c>>][cat]

\* features.reshape(H * W, -1): row r*W + c, column cat*5 + slot
neighborhood_feature(x) ==
  LET W == Shape1(x)
  IN  [n \in 0..(Shape0(x) * W - 1) |-> [k \in 0..24 |->
         features4(x, n \div W, n % W, k \div 5, k % 5)]]

\* ------------------------------------------------------ pystruct.utils
\* an edge (a, b) as a row of an (E, 2) array
Edge(a, b) == [k \in 0..1 |-> IF k = 0 THEN a ELSE b]

\* the node indices 0 .. H*W-1 in row-major order
NodeSeq(H, W) == [n \in 1..(H * W) |-> n - 1]

\* make_grid_edges(x, return_lists=True): <<right, down>>
make_grid_edges(x) ==
  LET H  == Shape0(x)
      W  == Shape1(x)
      rs == SelectSeq(NodeSeq(H, W), LAMBDA n : n % W < W - 1)
      ds == SelectSeq(NodeSeq(H, W), LAMBDA n : n \div W < H - 1)
  IN  << [j \in 0..(Len(rs) - 1) |-> Edge(rs[j + 1], rs[j + 1] + 1)],
         [j \in 0..(Len(ds) - 1) |-> Edge(ds[j + 1], ds[j + 1] + W)] >>

\* edge_list_to_features(edge_list): one row per stacked edge, column 0 set
\* for the edges of the first list and column 1 for those of the second
edge_list_to_features(edge_list) ==
  LET n0 == Size(edge_list[1])
      E  == Size(vstack(edge_list[1], edge_list[2]))
  IN  [i \in 0..(E - 1) |-> [k \in 0..1 |->
         IF (i < n0) = (k = 0) THEN 1 ELSE 0]]

\* --------------------------------------------------------- prepare_data
\* line 71
stack_swapped(r, d) == vstack(d, r)
stack_edges(r, d) == vstack(r, d)

\* line 76
directions_swapped(r, d) == edge_list_to_features(<<d, r>>)
directions_of(r, d) == edge_list_to_features(<<r, d>>)

\* lines 78-82
pair_features_bad(f, e, r, d) ==
  [i \in 0..(Size(e) - 1) |-> [k \in 0..(Size(f[0]) - 1) |-> [s \in 0..3 |->
     IF i < Size(r)
       THEN CASE s = 0 -> f[r[i][0]][k]
              [] s = 1 -> f[r[i][1]][k]
              [] OTHER -> 0
       ELSE CASE s = 0 -> f[d[i - Size(r)][0]][k]
              [] s = 1 -> f[d[i - Size(r)][0]][k]
              [] OTHER -> 0]]]
pair_features(f, e, r, d) ==
  [i \in 0..(Size(e) - 1) |-> [k \in 0..(Size(f[0]) - 1) |-> [s \in 0..3 |->
     IF i < Size(r)
       THEN CASE s = 0 -> f[r[i][0]][k]
              [] s = 1 -> f[r[i][1]][k]
              [] OTHER -> 0
       ELSE CASE s = 0 -> f[d[i - Size(r)][0]][k]
              [] s = 1 -> f[d[i - Size(r)][1]][k]
              [] OTHER -> 0]]]

\* line 68: the grid of the current iteration
first_sample(batch, i) == batch[1]
loop_sample(batch, i) == batch[i]

\* ------------------------------------------------------------ the inputs
\* raw colour of a 3-bit code: channel ch is 255 when bit ch is set
Colour(code) == [ch \in 0..2 |-> 255 * ((code \div Pow2(ch)) % 2)]
BackgroundCode == classes[background + 1]
OtherCodes == (0..7) \ {BackgroundCode}

RECURSIVE UpTo(_, _)
\* the subsets of S with at most k elements
UpTo(S, k) ==
  IF k = 0 THEN {{}}
  ELSE UpTo(S, k - 1) \cup {T \cup {e} : T \in UpTo(S, k - 1), e \in S}

\* the shapes <<H, W>> of at most c pixels
ShapeSet(c) == {hw \in (1..c) \X (1..c) : hw[1] * hw[2] <= c}

RECURSIVE CellsOf(_)
\* the pixels of a sequence of shapes, all told
CellsOf(shapes) ==
  IF shapes = << >> THEN 0
  ELSE shapes[1][1] * shapes[1][2] + CellsOf(Tail(shapes))

RECURSIVE ShapeSeqs(_, _)
\* the sequences of n shapes of at most c pixels all told
ShapeSeqs(n, c) ==
  IF n = 0 THEN {<< >>}
  ELSE UNION {{Append(t, hw) : hw \in ShapeSet(c - CellsOf(t))}
                : t \in ShapeSeqs(n - 1, c)}

\* the pixels <<i, <<r, c>>>> of a batch of the given shapes
Pixels(shapes) ==
  UNION {{<<i, p>> : p \in (0..(shapes[i][1] - 1)) \X (0..(shapes[i][2] - 1))}
           : i \in 1..Len(shapes)}

\* the batch of the given shapes, background but for the pixels in T, which
\* have the colour of the given code
Paint(shapes, T, code) ==
  [i \in 1..Len(shapes) |->
     [p \in (0..(shapes[i][1] - 1)) \X (0..(shapes[i][2] - 1)) |->
        IF <<i, p>> \in T THEN Colour(code) ELSE Colour(BackgroundCode)]]

\* the batches of n grids of at most c pixels all told, with a snake of at
\* most MaxSnake pixels of one colour
Batches(n, c) ==
  UNION {{Paint(sh, T, code) : T \in UpTo(Pixels(sh), MaxSnake),
                               code \in OtherCodes}
           : sh \in ShapeSeqs(n, c)}

\* -------------------------------------------------------------- the steps
Init ==
  /\ X_raw \in Batches(1, MaxCells)
               \cup UNION {Batches(n, BatchCells) : n \in 2..MaxBatch}
  /\ X = << >>
  /\ pc = "one_hot"
  /\ idx = 1
  /\ right = Unbound /\ down = Unbound /\ edges = Unbound
  /\ features = Unbound
  /\ edge_features_directions = Unbound
  /\ edge_features = Unbound
  /\ X_directions = << >>
  /\ X_edge_features = << >>

\* main, line 94: X_train = [one_hot_colors(x) for x in X_train]
OneHot ==
  /\ pc = "one_hot"
  /\ X' = [i \in 1..Len(X_raw) |-> one_hot_colors(X_raw[i])]
  /\ pc' = "call"
  /\ UNCHANGED <<X_raw, idx, right, down, edges, features,
                 edge_features_directions, edge_features,
                 X_directions, X_edge_features>>

\* prepare_data, lines 66-68
Enter ==
  /\ pc = "call"
  /\ X_directions' = << >>
  /\ X_edge_features' = << >>
  /\ idx' = 1
  /\ pc' = IF Len(X) >= 1 THEN "edges" ELSE "return"
  /\ UNCHANGED <<X_raw, X, right, down, edges, features,
                 edge_features_directions, edge_features>>

\* lines 70-71
GridEdges ==
  /\ pc = "edges"
  /\ LET rd == make_grid_edges(loop_sample(X, idx))
     IN  /\ right' = rd[1]
         /\ down' = rd[2]
         /\ edges' = stack_edges(rd[1], rd[2])
  /\ pc' = "features"
  /\ UNCHANGED <<X_raw, X, idx, features, edge_features_directions,
                 edge_features, X_directions, X_edge_features>>

\* line 73
Features ==
  /\ pc = "features"
  /\ features' = neighborhood_feature(loop_sample(X, idx))
  /\ pc' = "directions"
  /\ UNCHANGED <<X_raw, X, idx, right, down, edges,
                 edge_features_directions, edge_features,
                 X_directions, X_edge_features>>

\* line 76
Directions ==
  /\ pc = "directions"
  /\ edge_features_directions' = directions_of(right, down)
  /\ pc' = "pairs"
  /\ UNCHANGED <<X_raw, X, idx, right, down, edges, features,
                 edge_features, X_directions, X_edge_features>>

\* lines 78-82
PairFeatures ==
  /\ pc = "pairs"
  /\ edge_features' = pair_features(features, edges, right, down)
  /\ pc' = "append"
  /\ UNCHANGED <<X_raw, X, idx, right, down, edges, features,
                 edge_features_directions, X_directions, X_edge_features>>

\* lines 83-84, and the loop's next iteration
AppendSample ==
  /\ pc = "append"
  /\ X_directions' =
       Append(X_directions, <<features, edges, edge_features_directions>>)
  /\ X_edge_features' =
       Append(X_edge_features, <<features, edges, edge_features>>)
  /\ idx' = idx + 1
  /\ pc' = IF idx < Len(X) THEN "edges" ELSE "return"
  /\ UNCHANGED <<X_raw, X, right, down, edges, features,
                 edge_features_directions, edge_features>>

\* line 85
Return ==
  /\ pc = "return"
  /\ pc' = "done"
  /\ UNCHANGED <<X_raw, X, idx, right, down, edges, features,
                 edge_features_directions, edge_features,
                 X_directions, X_edge_features>>

Next ==
  \/ OneHot
  \/ Enter
  \/ GridEdges
  \/ Features
  \/ Directions
  \/ PairFeatures
  \/ AppendSample
  \/ Return

Spec == Init /\ [][Next]_vars

\* ------------------------------------------------------------ properties
\* the samples prepare_data has appended so far
Processed == 1..Len(X_edge_features)

\* the background one-hot vector
BackgroundVec == [cat \in 0..4 |-> IF cat = 3 THEN 1 ELSE 0]

\* the 3-bit code of a raw pixel, read channel by channel
RawCode(px) ==
  (IF px[0] = 255 THEN 1 ELSE 0) + (IF px[1] = 255 THEN 2 ELSE 0)
    + (IF px[2] = 255 THEN 4 ELSE 0)

ValidCodes == {1, 2, 3, 4, 6}

\* the reference lookup table from colour code to category
RefTable ==
  [c \in ValidCodes |->
     CASE c = 1 -> 0 [] c = 2 -> 1 [] c = 3 -> 2 [] c = 4 -> 3 [] c = 6 -> 4]

\* every pixel of the raw grid has one of the five valid colours
ValidRaw(g) == \A p \in DOMAIN g : RawCode(g[p]) \in ValidCodes

\* every pixel of the one-hot grid has exactly one category set
ValidOneHot(x) ==
  \A p \in DOMAIN x : Cardinality({k \in 0..4 : x[p][k] = 1}) = 1
                      /\ \A k \in 0..4 : x[p][k] \in {0, 1}

\* the 5-long vector a node's feature row holds for a slot
SlotVec(f, n, slot) == [cat \in 0..4 |-> f[n][cat * 5 + slot]]

\* the grid cell a neighbour slot looks at
Nbr(r, c, slot) ==
  CASE slot = 0 -> <<r, c - 1>>
    [] slot = 1 -> <<r - 1, c>>
    [] slot = 2 -> <<r + 1, c>>
    [] slot = 3 -> <<r, c + 1>>

\* C1: for every processed sample and every index i of the stacked edge
\* array, the node-feature-pair edge feature i holds the feature row of
\* edges[i][0] in slot 0 and the feature row of edges[i][1] in slot 1, in
\* the rightward segment and in the downward segment alike.
C1_EdgeFeatureAlignment ==
  \A s \in Processed :
    LET f  == X_edge_features[s][1]
        e  == X_edge_features[s][2]
        ef == X_edge_features[s][3]
    IN  /\ DOMAIN ef = DOMAIN e
        /\ \A i \in DOMAIN e : \A k \in DOMAIN f[0] :
             /\ ef[i][k][0] = f[e[i][0]][k]
             /\ ef[i][k][1] = f[e[i][1]][k]

\* a finished sample with a rightward and a downward edge whose two
\* endpoints have different feature rows
C1_Witness ==
  /\ pc = "done"
  /\ \E s \in Processed :
       LET f  == X_edge_features[s][1]
           e  == X_edge_features[s][2]
           n0 == Shape0(X[s]) * (Shape1(X[s]) - 1)
       IN  /\ \E i \in DOMAIN e : i < n0 /\ f[e[i][0]] # f[e[i][1]]
           /\ \E i \in DOMAIN e : i >= n0 /\ f[e[i][0]] # f[e[i][1]]

\* C2 (as claimed): every node-feature-pair edge feature has shape (F, 2)
\* with F = 25: exactly two slots and 2*F entries in all.
C2_TwoSlots ==
  \A s \in Processed :
    LET ef == X_edge_features[s][3]
    IN  \A i \in DOMAIN ef :
          /\ Size(ef[i]) = 25
          /\ \A k \in DOMAIN ef[i] : DOMAIN ef[i][k] = 0..1

\* C3 (as claimed): a grid with a pixel whose code is 0, 5 or 7 makes the
\* encoding fail, so one_hot_colors never returns an output for it.
C3_InvalidColourFails ==
  pc # "one_hot" => \A s \in 1..Len(X_raw) : ValidRaw(X_raw[s])

\* C4: for every processed valid one-hot grid and every boundary node, a
\* neighbour slot whose neighbour is off the grid holds exactly the
\* background one-hot vector, and a slot whose neighbour is on the grid
\* holds that neighbour's one-hot vector.
C4_BoundaryPadding ==
  \A s \in Processed :
    LET x == X[s]
        H == Shape0(x)
        W == Shape1(x)
        f == X_edge_features[s][1]
    IN  ValidOneHot(x) =>
          \A p \in DOMAIN x :
            (p[1] = 0 \/ p[1] = H - 1 \/ p[2] = 0 \/ p[2] = W - 1) =>
              \A slot \in 0..3 :
                LET q == Nbr(p[1], p[2], slot)
                    v == SlotVec(f, p[1] * W + p[2], slot)
                IN  IF q \in DOMAIN x THEN v = x[q] ELSE v = BackgroundVec

\* a finished one-row grid of two or more valid pixels, one of them not
\* background: its end nodes have off-grid and on-grid neighbours
C4_Witness ==
  /\ pc = "done"
  /\ \E s \in Processed :
       /\ ValidOneHot(X[s])
       /\ Shape0(X[s]) = 1 /\ Shape1(X[s]) >= 2
       /\ X[s][<<0, 1>>] # BackgroundVec

\* C5: for every processed valid one-hot grid and every interior pixel
\* (r, c), row r*W + c holds the one-hot vectors of (r, c-1), (r-1, c),
\* (r+1, c), (r, c+1) and (r, c) in slots 0, 1, 2, 3 and 4, and each slot
\* sums to 1.
C5_InteriorSlots ==
  \A s \in Processed :
    LET x == X[s]
        H == Shape0(x)
        W == Shape1(x)
        f == X_edge_features[s][1]
    IN  ValidOneHot(x) =>
          \A p \in DOMAIN x :
            (0 < p[1] /\ p[1] < H - 1 /\ 0 < p[2] /\ p[2] < W - 1) =>
              LET n == p[1] * W + p[2]
              IN  /\ \A slot \in 0..3 :
                       SlotVec(f, n, slot) = x[Nbr(p[1], p[2], slot)]
                  /\ SlotVec(f, n, 4) = x[p]
                  /\ \A slot \in 0..4 : SumTo(SlotVec(f, n, slot), 4) = 1

\* a finished valid 3 x 3 grid whose centre has a left neighbour that is
\* not background and a right neighbour that is
C5_Witness ==
  /\ pc = "done"
  /\ \E s \in Processed :
       /\ ValidOneHot(X[s])
       /\ Shape0(X[s]) = 3 /\ Shape1(X[s]) = 3
       /\ X[s][<<1, 0>>] # BackgroundVec
       /\ X[s][<<1, 2>>] = BackgroundVec

\* C6 (as claimed): a 1 x 1 grid gives 1 node, 0 edges and the feature
\* vector [self one-hot, background, background, background, background]
\* as five contiguous 5-wide blocks with the self block first.
C6_ContiguousBlocks ==
  \A s \in Processed :
    (Shape0(X[s]) = 1 /\ Shape1(X[s]) = 1 /\ ValidOneHot(X[s])) =>
      /\ Size(X_edge_features[s][1]) = 1
      /\ Size(X_edge_features[s][2]) = 0
      /\ X_edge_features[s][1][0] =
           [k \in 0..24 |-> IF k \div 5 = 0 THEN X[s][<<0, 0>>][k % 5]
                                            ELSE BackgroundVec[k % 5]]

\* C6 (amended): a 1 x 1 grid of a valid colour gives 1 node, 0 edges,
\* empty edge-feature arrays, and a feature vector whose entry cat*5 + slot
\* is the background one-hot at cat for slots 0..3 and the pixel's own
\* one-hot at cat for slot 4.
C6_SingleCell ==
  \A s \in Processed :
    (Shape0(X[s]) = 1 /\ Shape1(X[s]) = 1 /\ ValidOneHot(X[s])) =>
      /\ Size(X_edge_features[s][1]) = 1
      /\ Size(X_edge_features[s][2]) = 0
      /\ Size(X_edge_features[s][3]) = 0
      /\ Size(X_directions[s][3]) = 0
      /\ X_edge_features[s][1][0] =
           [k \in 0..24 |-> IF k % 5 = 4 THEN X[s][<<0, 0>>][k \div 5]
                                         ELSE BackgroundVec[k \div 5]]

\* a finished 1 x 1 grid of a valid colour other than background
C6_Witness ==
  /\ pc = "done"
  /\ \E s \in Processed :
       /\ Shape0(X[s]) = 1 /\ Shape1(X[s]) = 1
       /\ ValidOneHot(X[s])
       /\ X[s][<<0, 0>>] # BackgroundVec

\* C7: once the edge lists of the current grid are built, len(right) =
\* H*(W-1) and len(down) = (H-1)*W, rightward edge j is (r*W+c, r*W+c+1)
\* and downward edge j is (r*W+c, (r+1)*W+c) in row-major order of the
\* source, and the stacked array is right followed by down, without
\* duplicates or self-loops and with all endpoints in [0, H*W).
C7_GridEdges ==
  pc \in {"features", "directions", "pairs", "append"} =>
    LET H == Shape0(X[idx])
        W == Shape1(X[idx])
    IN  /\ Size(right) = H * (W - 1)
        /\ Size(down) = (H - 1) * W
        /\ \A j \in DOMAIN right :
             LET n == (j \div (W - 1)) * W + (j % (W - 1))
             IN  right[j][0] = n /\ right[j][1] = n + 1
        /\ \A j \in DOMAIN down :
             LET n == (j \div W) * W + (j % W)
             IN  down[j][0] = n /\ down[j][1] = ((j \div W) + 1) * W + (j % W)
        /\ Size(edges) = Size(right) + Size(down)
        /\ \A i \in DOMAIN edges :
             /\ edges[i] = IF i < Size(right) THEN right[i]
                                             ELSE down[i - Size(right)]
             /\ edges[i][0] # edges[i][1]
             /\ edges[i][0] \in 0..(H * W - 1)
             /\ edges[i][1] \in 0..(H * W - 1)
             /\ \A j \in DOMAIN edges : i # j => edges[i] # edges[j]

\* the edge lists of a grid with more columns than rows, both non-empty
C7_Witness ==
  /\ pc = "append"
  /\ Shape0(X[idx]) = 2 /\ Shape1(X[idx]) = 3
  /\ Size(right) = 4 /\ Size(down) = 3

\* C8: for every processed grid of at least 2 x 2, the direction-only edge
\* feature of index i is the horizontal indicator (1, 0) for i < len(right)
\* and the vertical indicator (0, 1) for i >= len(right), whatever the
\* grid's contents: two processed grids of one shape have equal direction
\* features.
C8_DirectionFeatures ==
  \A s \in Processed :
    LET H == Shape0(X[s])
        W == Shape1(X[s])
        d == X_directions[s][3]
    IN  (H >= 2 /\ W >= 2) =>
          /\ DOMAIN d = DOMAIN X_directions[s][2]
          /\ \A i \in DOMAIN d :
               /\ DOMAIN d[i] = 0..1
               /\ d[i][0] = (IF i < H * (W - 1) THEN 1 ELSE 0)
               /\ d[i][1] = (IF i < H * (W - 1) THEN 0 ELSE 1)
          /\ \A t \in Processed :
               (Shape0(X[t]) = H /\ Shape1(X[t]) = W) =>
                 X_directions[t][3] = d

\* a finished grid of 3 rows and 2 columns with a pixel that is not
\* background
C8_Witness ==
  /\ pc = "done"
  /\ \E s \in Processed :
       /\ Shape0(X[s]) = 3 /\ Shape1(X[s]) = 2
       /\ \E p \in DOMAIN X[s] : X[s][p] # BackgroundVec
       /\ Size(X_directions[s][3]) = 7

\* what prepare_data's loop body computes from one grid alone
DirectionsTuple(x) ==
  LET rd == make_grid_edges(x)
  IN  <<neighborhood_feature(x), vstack(rd[1], rd[2]),
        edge_list_to_features(rd)>>

\* the same for the node-feature-pair variant
PairsTuple(x) ==
  LET rd == make_grid_edges(x)
      f  == neighborhood_feature(x)
      e  == vstack(rd[1], rd[2])
  IN  <<f, e, pair_features(f, e, rd[1], rd[2])>>

\* the state part of C9
C9_PerSample ==
  /\ Len(X_directions) = Len(X_edge_features)
  /\ Len(X_directions) <= Len(X)
  /\ pc = "done" => Len(X_directions) = Len(X)
  /\ \A s \in Processed :
       /\ X_directions[s] = DirectionsTuple(X[s])
       /\ X_edge_features[s] = PairsTuple(X[s])
       /\ X_directions[s][1] = X_edge_features[s][1]
       /\ X_directions[s][2] = X_edge_features[s][2]
       /\ \A t \in Processed :
            X[s] = X[t] => /\ X_directions[s] = X_directions[t]
                           /\ X_edge_features[s] = X_edge_features[t]

\* C9: prepare_data returns two lists of one tuple per grid, in input
\* order; the tuple of grid i is a function of grid i alone, so equal grids
\* give equal tuples whatever else the batch holds; the two tuples of a
\* grid carry the same node features and edges; and no step changes an
\* input grid.
C9_Stateless ==
  /\ []C9_PerSample
  /\ [][X_raw' = X_raw /\ (pc # "one_hot" => X' = X)]_vars

\* a finished batch of two different grids
C9_Witness ==
  /\ pc = "done"
  /\ Len(X) = 2
  /\ Len(X_edge_features) = 2
  /\ X[1] # X[2]
  /\ X_edge_features[1] # X_edge_features[2]

\* C10: every pixel of a valid raw colour is encoded as a vector over the 5
\* categories with exactly one entry set, at the category the reference
\* table gives its code; pixels of different valid colours get different
\* categories; the output has the grid's H x W shape.
C10_ReferenceTable ==
  pc # "one_hot" =>
    /\ Len(X) = Len(X_raw)
    /\ \A s \in 1..Len(X) :
         /\ DOMAIN X[s] = DOMAIN X_raw[s]
         /\ \A p \in DOMAIN X[s] :
              /\ DOMAIN X[s][p] = 0..4
              /\ RawCode(X_raw[s][p]) \in ValidCodes =>
                   \A k \in 0..4 :
                     X[s][p][k] =
                       (IF k = RefTable[RawCode(X_raw[s][p])] THEN 1 ELSE 0)
              /\ \A q \in DOMAIN X[s] :
                   (/\ RawCode(X_raw[s][p]) \in ValidCodes
                    /\ RawCode(X_raw[s][q]) \in ValidCodes
                    /\ X_raw[s][p] # X_raw[s][q]) => X[s][p] # X[s][q]

\* an encoded grid holding the valid colour of code 6 next to background
C10_Witness ==
  /\ pc = "call"
  /\ \E s \in 1..Len(X) : \E p, q \in DOMAIN X[s] :
       /\ RawCode(X_raw[s][p]) = 6
       /\ RawCode(X_raw[s][q]) = 4
       /\ X[s][p] # X[s][q]

====
